---- MODULE Spec2Model ----
(***************************************************************************)
(* A model of cachetree-redis (lib/store.js): the RedisStore facade over   *)
(* a redis client.  JavaScript values are tagged records, text is a        *)
(* sequence of one-character strings, an object is the sequence of its own *)
(* enumerable properties in the order Object.keys reports them.            *)
(***************************************************************************)
EXTENDS Integers, Sequences, FiniteSets, TLC

(***************************************************************************)
(* JavaScript values                                                       *)
(***************************************************************************)
Undef == [t |-> "undefined"]
Null == [t |-> "null"]
Bool(b) == [t |-> "boolean", b |-> b]
Num(n) == [t |-> "number", n |-> n]
Str(s) == [t |-> "string", s |-> s]
Buf(s) == [t |-> "buffer", bytes |-> s]
Fn(id) == [t |-> "function", id |-> id]
Arr(a) == [t |-> "array", a |-> a]
Obj(p) == [t |-> "object", p |-> p]
Err(m) == [t |-> "error", msg |-> m]
NaN == [t |-> "NaN"]
Prop(k, v) == [k |-> k, v |-> v]

\* typeof v
TypeOf(v) ==
  IF v.t \in {"undefined", "boolean", "number", "string", "function"} THEN v.t
  ELSE IF v.t = "NaN" THEN "number"
  ELSE "object"

\* ToBoolean(v), the test made by if (v), v && ..., v || ...
Truthy(v) ==
  CASE v.t \in {"undefined", "null", "NaN"} -> FALSE
    [] v.t = "boolean" -> v.b
    [] v.t = "number" -> v.n # 0
    [] v.t = "string" -> v.s # <<>>
    [] OTHER -> TRUE

IsArray(v) == v.t = "array"
IsBuffer(v) == v.t = "buffer"
IsFunction(v) == v.t = "function"
\* v === Object(v)
IsObject(v) == v.t \in {"object", "array", "buffer", "function", "error"}

(***************************************************************************)
(* Text                                                                    *)
(***************************************************************************)
Digits == <<"0", "1", "2", "3", "4", "5", "6", "7", "8", "9">>
IsDigit(c) == \E i \in 1..10 : Digits[i] = c
DigitVal(c) == (CHOOSE i \in 1..10 : Digits[i] = c) - 1

RECURSIVE NatToText(_)
NatToText(n) ==
  IF n < 10 THEN <<Digits[n + 1]>>
  ELSE NatToText(n \div 10) \o <<Digits[(n % 10) + 1]>>

\* String(n) for an integer n
NumToText(n) == IF n < 0 THEN <<"-">> \o NatToText(0 - n) ELSE NatToText(n)

RECURSIVE JoinTexts(_, _)
JoinTexts(ts, sep) ==
  IF ts = <<>> THEN <<>>
  ELSE IF Len(ts) = 1 THEN ts[1]
  ELSE ts[1] \o sep \o JoinTexts(Tail(ts), sep)

\* String(v) as Array.prototype.join and the redis client apply it
RECURSIVE ToText(_)
ToText(v) ==
  CASE v.t = "string" -> v.s
    [] v.t = "buffer" -> v.bytes
    [] v.t = "number" -> NumToText(v.n)
    [] v.t = "boolean" -> IF v.b THEN <<"t", "r", "u", "e">> ELSE <<"f", "a", "l", "s", "e">>
    [] v.t = "null" -> <<"n", "u", "l", "l">>
    [] v.t = "undefined" -> <<"u", "n", "d", "e", "f", "i", "n", "e", "d">>
    [] v.t = "array" ->
         JoinTexts([i \in 1..Len(v.a) |->
                      IF v.a[i].t \in {"null", "undefined"} THEN <<>> ELSE ToText(v.a[i])],
                   <<",">>)
    [] v.t = "NaN" -> <<"N", "a", "N">>
    [] v.t = "function" -> <<"f", "n">>
    [] v.t = "error" -> <<"E", "r", "r", "o", "r">>
    [] OTHER -> <<"[", "o", "b", "j", "e", "c", "t", " ", "O", "b", "j", "e", "c", "t", "]">>

(***************************************************************************)
(* Objects: own enumerable properties in Object.keys order (integer-like   *)
(* names ascending first, then the other names in insertion order)         *)
(***************************************************************************)
RECURSIVE TextToNat(_)
TextToNat(s) ==
  IF s = <<>> THEN 0
  ELSE 10 * TextToNat(SubSeq(s, 1, Len(s) - 1)) + DigitVal(s[Len(s)])

\* a canonical array index: "0", "13", not "013" and not "-1"
IsIndexKey(k) ==
  /\ k # <<>>
  /\ \A i \in 1..Len(k) : IsDigit(k[i])
  /\ (k[1] # "0" \/ Len(k) = 1)

HasOwn(p, k) == \E i \in 1..Len(p) : p[i].k = k
GetOwn(p, k) == p[CHOOSE i \in 1..Len(p) : p[i].k = k].v

\* the position a new property named k takes in the key order
InsertAt(p, k) ==
  IF IsIndexKey(k)
  THEN 1 + Cardinality({i \in 1..Len(p) :
                          IsIndexKey(p[i].k) /\ TextToNat(p[i].k) < TextToNat(k)})
  ELSE Len(p) + 1

\* o[k] = v on the property list p
ObjSet(p, k, v) ==
  IF HasOwn(p, k)
  THEN [i \in 1..Len(p) |-> IF p[i].k = k THEN Prop(k, v) ELSE p[i]]
  ELSE LET at == InsertAt(p, k)
       IN SubSeq(p, 1, at - 1) \o <<Prop(k, v)>> \o SubSeq(p, at, Len(p))

\* Object.keys(o)
ObjKeys(p) == [i \in 1..Len(p) |-> p[i].k]

(***************************************************************************)
(* JSON.stringify                                                           *)
(***************************************************************************)
RECURSIVE EscapeText(_)
EscapeText(s) ==
  IF s = <<>> THEN <<>>
  ELSE (IF s[1] \in {"\"", "\\"} THEN <<"\\", s[1]>> ELSE <<s[1]>>) \o EscapeText(Tail(s))

QuoteText(s) == <<"\"">> \o EscapeText(s) \o <<"\"">>

\* values JSON._stringify leaves out of objects and turns to null in arrays
JSONOmitted(v) == v.t \in {"undefined", "function"}

RECURSIVE JSONText(_)
JSONText(v) ==
  CASE v.t = "number" -> NumToText(v.n)
    [] v.t \in {"boolean", "null"} -> ToText(v)
    [] v.t = "string" -> QuoteText(v.s)
    [] v.t = "array" ->
         <<"[">> \o JoinTexts([i \in 1..Len(v.a) |->
                                IF JSONOmitted(v.a[i]) THEN ToText(Null) ELSE JSONText(v.a[i])],
                              <<",">>) \o <<"]">>
    [] v.t = "object" ->
         LET kept == SelectSeq(v.p, LAMBDA e : ~JSONOmitted(e.v))
         IN <<"{">> \o JoinTexts([i \in 1..Len(kept) |->
                                   QuoteText(kept[i].k) \o <<":">> \o JSONText(kept[i].v)],
                                 <<",">>) \o <<"}">>
    [] v.t = "error" -> <<"{", "}">>

JSONstringify(v) == IF JSONOmitted(v) THEN Undef ELSE Str(JSONText(v))

(***************************************************************************)
(* JSON._parse, by recursive descent; a _parse result is [ok, v, i] with i   *)
(* the position after the value.  Numbers are integers: the texts of the   *)
(* model hold no fraction and no exponent.                                 *)
(***************************************************************************)
ParseFail == [ok |-> FALSE, v |-> Undef, i |-> 0]
ParseOk(v, i) == [ok |-> TRUE, v |-> v, i |-> i]

RECURSIVE SkipWs(_, _)
SkipWs(s, i) == IF i <= Len(s) /\ s[i] = " " THEN SkipWs(s, i + 1) ELSE i

MatchAt(s, i, w) == i + Len(w) - 1 <= Len(s) /\ SubSeq(s, i, i + Len(w) - 1) = w

RECURSIVE DigitsEnd(_, _)
DigitsEnd(s, i) == IF i <= Len(s) /\ IsDigit(s[i]) THEN DigitsEnd(s, i + 1) ELSE i

ParseNumber(s, i) ==
  LET neg == i <= Len(s) /\ s[i] = "-"
      from == IF neg THEN i + 1 ELSE i
      to == IF from <= Len(s) /\ s[from] = "0" THEN from + 1 ELSE DigitsEnd(s, from)
      n == TextToNat(SubSeq(s, from, to - 1))
  IN IF to = from THEN ParseFail
     ELSE CASE ~(to <= Len(s) /\ s[to] \in {".", "e", "E"}) ->
                 ParseOk(Num(IF neg THEN 0 - n ELSE n), to)

RECURSIVE ParseChars(_, _, _)
ParseChars(s, i, acc) ==
  IF i > Len(s) THEN ParseFail
  ELSE IF s[i] = "\"" THEN ParseOk(Str(acc), i + 1)
  ELSE IF s[i] = "\\"
       THEN IF i + 1 <= Len(s) /\ s[i + 1] \in {"\"", "\\", "/"}
            THEN ParseChars(s, i + 2, Append(acc, s[i + 1]))
            ELSE ParseFail
  ELSE ParseChars(s, i + 1, Append(acc, s[i]))

ParseString(s, i) ==
  IF i <= Len(s) /\ s[i] = "\"" THEN ParseChars(s, i + 1, <<>>) ELSE ParseFail

RECURSIVE ParseValue(_, _)
RECURSIVE ParseElems(_, _, _)
RECURSIVE ParseMembers(_, _, _)

\* after '[' and at least one element: acc holds the elements read so far
ParseElems(s, i, acc) ==
  LET r == ParseValue(s, SkipWs(s, i))
      j == SkipWs(s, r.i)
  IN IF ~r.ok \/ j > Len(s) THEN ParseFail
     ELSE IF s[j] = "," THEN ParseElems(s, j + 1, Append(acc, r.v))
     ELSE IF s[j] = "]" THEN ParseOk(Arr(Append(acc, r.v)), j + 1)
     ELSE ParseFail

ParseMembers(s, i, acc) ==
  LET k == ParseString(s, SkipWs(s, i))
      c == SkipWs(s, k.i)
      r == ParseValue(s, SkipWs(s, c + 1))
      j == SkipWs(s, r.i)
  IN IF ~k.ok \/ c > Len(s) THEN ParseFail
     ELSE IF s[c] # ":" THEN ParseFail
     ELSE IF ~r.ok \/ j > Len(s) THEN ParseFail
     ELSE IF s[j] = "," THEN ParseMembers(s, j + 1, ObjSet(acc, k.v.s, r.v))
     ELSE IF s[j] = "}" THEN ParseOk(Obj(ObjSet(acc, k.v.s, r.v)), j + 1)
     ELSE ParseFail

ParseValue(s, i) ==
  IF i > Len(s) THEN ParseFail
  ELSE IF MatchAt(s, i, ToText(Bool(TRUE))) THEN ParseOk(Bool(TRUE), i + 4)
  ELSE IF MatchAt(s, i, ToText(Bool(FALSE))) THEN ParseOk(Bool(FALSE), i + 5)
  ELSE IF MatchAt(s, i, ToText(Null)) THEN ParseOk(Null, i + 4)
  ELSE IF s[i] = "\"" THEN ParseString(s, i)
  ELSE IF s[i] = "["
       THEN LET j == SkipWs(s, i + 1)
            IN IF j <= Len(s) /\ s[j] = "]" THEN ParseOk(Arr(<<>>), j + 1)
               ELSE ParseElems(s, i + 1, <<>>)
  ELSE IF s[i] = "{"
       THEN LET j == SkipWs(s, i + 1)
            IN IF j <= Len(s) /\ s[j] = "}" THEN ParseOk(Obj(<<>>), j + 1)
               ELSE ParseMembers(s, i + 1, <<>>)
  ELSE ParseNumber(s, i)

\* JSON._parse(text): ok is FALSE where JSON._parse throws a SyntaxError
JSONparse(text) ==
  LET r == ParseValue(text, SkipWs(text, 1))
  IN IF r.ok /\ SkipWs(text, r.i) = Len(text) + 1 THEN r ELSE ParseFail

(***************************************************************************)
(* State                                                                   *)
(***************************************************************************)
VARIABLES
  delimiter,  \* store.delimiter, a string or a number
  autoCast,   \* store.autoCast
  client,     \* store.client, the handle of the redis client
  db,         \* the engine's records: key text -> <<[k |-> field, v |-> bytes], ...>>
  pending,    \* commands handed to the client and not yet answered, oldest first
  answered,   \* commands the engine has executed whose answer the client delivers later
  event       \* what the last step did: a call, an engine reply or a lifecycle signal

vars == <<delimiter, autoCast, client, db, pending, answered, event>>

(***************************************************************************)
(* Module-level helpers of lib/store.js                                    *)
(***************************************************************************)
BUFFER_FROM == TRUE

Thrown == [threw |-> TRUE, v |-> Undef]
Returned(v) == [threw |-> FALSE, v |-> v]

\* Buffer.from(str, 'utf8') rejects a number with a TypeError; new Buffer(str)
\* of the older runtimes is modelled for strings only
createBuffer(str) ==
  IF str.t = "string" THEN Returned(Buf(str.s))
  ELSE CASE BUFFER_FROM -> Thrown

\* a faulty convertValue that never applies JSON.parse
convertValueBug(value, cast) ==
  IF value.t \in {"null", "undefined"} THEN value
  ELSE IF IsBuffer(value) THEN Str(value.bytes) ELSE value

convertValue(value, cast) ==
  IF value.t \in {"null", "undefined"} THEN value
  ELSE LET val == IF IsBuffer(value) THEN Str(value.bytes) ELSE value
       IN IF cast # Bool(FALSE) /\ val.t = "string" /\ JSONparse(val.s).ok
          THEN JSONparse(val.s).v
          ELSE val

\* a faulty getter that converts Buffers even when rawBuffer is true
wrapValueBug(value, rawBuffer, cast) ==
  IF value.t \in {"null", "undefined"} THEN value ELSE convertValue(value, cast)

\* the value a property defined by wrapData yields when it is read
wrapValue(value, rawBuffer, cast) ==
  IF value.t \in {"null", "undefined"} \/ (rawBuffer = Bool(TRUE) /\ IsBuffer(value))
  THEN value
  ELSE convertValue(value, cast)

\* a faulty wrapData that defines no property for a null or undefined value
wrapDataBug(target, name, value, rawBuffer, cast) ==
  IF HasOwn(target, ToText(name)) \/ value.t \in {"null", "undefined"} THEN target
  ELSE ObjSet(target, ToText(name), wrapValue(value, rawBuffer, cast))

\* wrapData(target, name, value, rawBuffer, cast) on the property list of target
wrapData(target, name, value, rawBuffer, cast) ==
  IF HasOwn(target, ToText(name)) THEN target
  ELSE ObjSet(target, ToText(name), wrapValue(value, rawBuffer, cast))

(***************************************************************************)
(* Constructor                                                             *)
(***************************************************************************)
\* a faulty constructor that takes every string as the delimiter
CtorDelimiterBug(opt) ==
  IF TypeOf(opt) \in {"string", "number"} THEN opt ELSE Str(<<":">>)

\* options.delimiter -> this.delimiter
CtorDelimiter(opt) ==
  IF (TypeOf(opt) = "string" /\ Truthy(opt)) \/ TypeOf(opt) = "number" THEN opt
  ELSE Str(<<":">>)

\* options.autoCast -> this.autoCast
CtorAutoCast(opt) == opt # Bool(FALSE)

\* the client handle a caller supplies and the one redis.createClient makes
SuppliedClient == [t |-> "client", id |-> "supplied"]
CreatedClient == [t |-> "client", id |-> "created"]
\* options.client -> this.client
CtorClient(opt) == IF Truthy(opt) THEN opt ELSE CreatedClient

\* this._autoCast, which get hands to convertValue and wrapData: never assigned
_autoCast == Undef

(***************************************************************************)
(* RedisStore.prototype.cacheKey, _stringify, _parse                       *)
(***************************************************************************)
\* a faulty cacheKey that joins with Array.prototype.join's default separator
cacheKeyCommaBug(key) ==
  IF IsArray(key) /\ Len(key.a) > 0 THEN Str(ToText(key))
  ELSE IF (TypeOf(key) = "string" /\ Truthy(key)) \/ TypeOf(key) = "number" THEN key
  ELSE Undef

\* a faulty cacheKey that accepts any non-array key
cacheKeyBug(key) ==
  IF IsArray(key) /\ Len(key.a) > 0
  THEN Str(JoinTexts([i \in 1..Len(key.a) |->
                        IF key.a[i].t \in {"null", "undefined"} THEN <<>>
                        ELSE ToText(key.a[i])],
                     ToText(delimiter)))
  ELSE key

cacheKey(key) ==
  IF IsArray(key) /\ Len(key.a) > 0
  THEN Str(JoinTexts([i \in 1..Len(key.a) |->
                        IF key.a[i].t \in {"null", "undefined"} THEN <<>>
                        ELSE ToText(key.a[i])],
                     ToText(delimiter)))
  ELSE IF (TypeOf(key) = "string" /\ Truthy(key)) \/ TypeOf(key) = "number" THEN key
  ELSE Undef

\* a faulty _stringify that also encodes strings
stringifyStringsBug(value) ==
  IF ~autoCast \/ IsBuffer(value) THEN value ELSE JSONstringify(value)

\* a faulty _stringify that uses String(value) in place of JSON.stringify
stringifyBug(value) ==
  IF ~autoCast \/ IsBuffer(value) \/ TypeOf(value) = "string" THEN value
  ELSE Str(ToText(value))

_stringify(value) ==
  IF ~autoCast \/ IsBuffer(value) \/ TypeOf(value) = "string" THEN value
  ELSE JSONstringify(value)

_parse(value) ==
  IF IsBuffer(value) THEN value ELSE convertValue(value, Bool(autoCast))

(***************************************************************************)
(* Calls: what one invocation of an operation does before it returns       *)
(***************************************************************************)
Noop == Fn("noop")
Invoke(fn, args) == [fn |-> fn, args |-> args]
Command(cmd, op, key, arg, cb, raw) ==
  [cmd |-> cmd, op |-> op, key |-> key, arg |-> arg, cb |-> cb, raw |-> raw]
NoCommand == Command("none", "none", Undef, Undef, Undef, Undef)

\* calls: the callbacks invoked, in order; issued: the commands handed to the
\* client; ret: "this" or "cb" (the callback's own result); data: the caller's
\* data argument as the call leaves it
Outcome(calls, issued, ret, threw, data) ==
  [calls |-> calls, issued |-> issued, ret |-> ret, threw |-> threw, data |-> data]
Nothing == Outcome(<<>>, <<>>, "this", FALSE, Undef)
Fails(cb, msg) == Outcome(<<Invoke(cb, <<Err(msg)>>)>>, <<>>, "this", FALSE, Undef)
Issues(c) == Outcome(<<>>, <<c>>, "this", FALSE, Undef)

\* args.pop() and args.shift()
PopValue(args) == IF args = <<>> THEN Undef ELSE args[Len(args)]
PopRest(args) == IF args = <<>> THEN <<>> ELSE SubSeq(args, 1, Len(args) - 1)
ShiftValue(args) == IF args = <<>> THEN Undef ELSE args[1]
ShiftRest(args) == IF args = <<>> THEN <<>> ELSE Tail(args)
\* if (len === 1 && Array.isArray(args[0])) args = args[0]
Unwrap(args) == IF Len(args) = 1 /\ IsArray(args[1]) THEN args[1].a ELSE args

getCall(arguments) ==
  LET cb == PopValue(arguments)
      key == cacheKey(ShiftValue(PopRest(arguments)))
      args == Unwrap(ShiftRest(PopRest(arguments)))
      flag == (Len(args) # 0 /\ ShiftValue(args) = Bool(TRUE)) \/ ShiftValue(args) = Bool(FALSE)
      asBuffer == IF flag THEN ShiftValue(args) ELSE Bool(FALSE)
      fields == IF flag THEN ShiftRest(args) ELSE args
      bkey == IF asBuffer = Bool(TRUE) THEN createBuffer(key) ELSE Returned(key)
  IN IF ~IsFunction(cb) THEN Nothing
     ELSE IF ~Truthy(key) THEN Fails(cb, "Invalid key")
     ELSE IF bkey.threw THEN Outcome(<<>>, <<>>, "this", TRUE, Undef)
     ELSE IF fields = <<>>
          THEN Issues(Command("hgetall", "get", bkey.v, Undef, cb, asBuffer))
          ELSE Issues(Command("hmget", "get", bkey.v, Arr(fields), cb, asBuffer))

\* a faulty pairing loop in which the first pair for a field wins
RECURSIVE setPairsBug(_, _, _)
setPairsBug(args, i, data) ==
  IF i + 1 > Len(args) THEN data
  ELSE setPairsBug(args, i + 2,
                   IF HasOwn(data, ToText(args[i])) THEN data
                   ELSE ObjSet(data, ToText(args[i]), _stringify(args[i + 1])))

\* data[args[i]] = this._stringify(args[i + 1]) for i = 0, 2, ... while i + 1 < len
RECURSIVE setPairs(_, _, _)
setPairs(args, i, data) ==
  IF i + 1 > Len(args) THEN data
  ELSE setPairs(args, i + 2, ObjSet(data, ToText(args[i]), _stringify(args[i + 1])))

\* Object.keys(data).forEach(val => data[val] = this._stringify(data[val]))
stringifyAll(data) ==
  IF data.t = "object"
  THEN Obj([i \in 1..Len(data.p) |-> Prop(data.p[i].k, _stringify(data.p[i].v))])
  ELSE data

setCall(arguments) ==
  LET cb0 == PopValue(arguments)
      key == cacheKey(ShiftValue(PopRest(arguments)))
      rest == ShiftRest(PopRest(arguments))
      pushed == Truthy(cb0) /\ ~IsFunction(cb0)
      cb == IF pushed THEN Null ELSE cb0
      args0 == IF pushed THEN Append(rest, cb0) ELSE rest
      args1 == Unwrap(args0)
      args == Unwrap(args1)
      len == Len(args)
      data == IF len = 1
              THEN (IF IsObject(args[1]) THEN stringifyAll(args[1]) ELSE Undef)
              ELSE Obj(setPairs(args, 1, <<>>))
      done == IF Truthy(cb) THEN cb ELSE Noop
      err == IF ~Truthy(key) THEN "Invalid key"
             ELSE IF Len(args1) = 0 THEN "Invalid data" ELSE ""
  IN IF err # ""
     THEN Outcome(IF IsFunction(cb) THEN <<Invoke(cb, <<Err(err), Num(0)>>)>> ELSE <<>>,
                  <<>>, "this", FALSE, Undef)
     ELSE Outcome(<<>>, <<Command("hmset", "set", key, data, done, Bool(FALSE))>>,
                  "this", FALSE, IF len = 1 THEN data ELSE Undef)

\* the i-th argument of a call, undefined when it was not passed
Param(arguments, i) == IF i <= Len(arguments) THEN arguments[i] ELSE Undef

keysCall(arguments) ==
  LET pattern == Param(arguments, 1)
      cb == Param(arguments, 2)
      composed == IF IsArray(pattern) THEN cacheKey(pattern) ELSE pattern
  IN IF IsFunction(pattern) THEN Fails(pattern, "Invalid pattern")
     ELSE IF ~IsFunction(cb) THEN Nothing
     ELSE IF (TypeOf(composed) = "string" /\ Truthy(composed)) \/ TypeOf(composed) = "number"
          THEN Issues(Command("keys", "keys", composed, Undef, cb, Bool(FALSE)))
          ELSE Fails(cb, "Invalid pattern")

existsCall(arguments) ==
  LET key == Param(arguments, 1)
      field == Param(arguments, 2)
      cb == Param(arguments, 3)
      first == IF IsFunction(key) THEN <<Invoke(key, <<Err("Invalid key")>>)>>
               ELSE IF IsFunction(field) THEN <<Invoke(field, <<Err("Invalid field")>>)>>
               ELSE <<>>
  IN IF ~IsFunction(cb) THEN Outcome(first, <<>>, "this", FALSE, Undef)
     ELSE IF ~Truthy(cacheKey(key))
          THEN Outcome(first \o <<Invoke(cb, <<Err("Invalid key")>>)>>, <<>>, "cb", FALSE, Undef)
          ELSE Outcome(first, <<Command("hexists", "exists", cacheKey(key), field, cb, Bool(FALSE))>>,
                       "this", FALSE, Undef)

\* a faulty del that does not unwrap an array of fields
delCallBug(arguments) ==
  LET cb0 == PopValue(arguments)
      key == cacheKey(ShiftValue(PopRest(arguments)))
      rest == ShiftRest(PopRest(arguments))
      cb == IF IsFunction(cb0) THEN cb0 ELSE Null
      args == IF IsFunction(cb0) THEN rest ELSE Append(rest, cb0)
  IN IF Truthy(key) THEN Issues(Command("hdel", "del", key, Arr(args), cb, Bool(FALSE)))
     ELSE IF IsFunction(cb) THEN Fails(cb, "Invalid key")
     ELSE Nothing

delCall(arguments) ==
  LET cb0 == PopValue(arguments)
      key == cacheKey(ShiftValue(PopRest(arguments)))
      rest == ShiftRest(PopRest(arguments))
      cb == IF IsFunction(cb0) THEN cb0 ELSE Null
      args == Unwrap(IF IsFunction(cb0) THEN rest ELSE Append(rest, cb0))
  IN IF Truthy(key) THEN Issues(Command("hdel", "del", key, Arr(args), cb, Bool(FALSE)))
     ELSE IF IsFunction(cb) THEN Fails(cb, "Invalid key")
     ELSE Nothing

\* a faulty flush that clears only the first key
flushCallBug(arguments) ==
  LET popped == Len(arguments) > 0 /\ ~IsArray(arguments[Len(arguments)])
      cb == IF popped THEN PopValue(arguments) ELSE Undef
      args == Unwrap(IF popped THEN PopRest(arguments) ELSE arguments)
  IN IF Len(args) > 0
     THEN Issues(Command("del", "flush", Undef, Arr(<<cacheKey(args[1])>>),
                         IF Truthy(cb) THEN cb ELSE Noop, Bool(FALSE)))
     ELSE IF IsFunction(cb) THEN Fails(cb, "Invalid key")
     ELSE Nothing

flushCall(arguments) ==
  LET popped == Len(arguments) > 0 /\ ~IsArray(arguments[Len(arguments)])
      cb == IF popped THEN PopValue(arguments) ELSE Undef
      args == Unwrap(IF popped THEN PopRest(arguments) ELSE arguments)
  IN IF Len(args) > 0
     THEN Issues(Command("del", "flush", Undef, Arr([i \in 1..Len(args) |-> cacheKey(args[i])]),
                         IF Truthy(cb) THEN cb ELSE Noop, Bool(FALSE)))
     ELSE IF IsFunction(cb) THEN Fails(cb, "Invalid key")
     ELSE Nothing

fieldsCall(arguments) ==
  LET key == Param(arguments, 1)
      cb == Param(arguments, 2)
      first == IF IsFunction(key) THEN <<Invoke(key, <<Err("Invalid key")>>)>> ELSE <<>>
  IN IF ~IsFunction(cb) THEN Outcome(first, <<>>, "this", FALSE, Undef)
     ELSE IF ~Truthy(cacheKey(key))
          THEN Outcome(first \o <<Invoke(cb, <<Err("Invalid key")>>)>>, <<>>, "cb", FALSE, Undef)
          ELSE Outcome(first, <<Command("hkeys", "fields", cacheKey(key), Undef, cb, Bool(FALSE))>>,
                       "this", FALSE, Undef)

\* the operation named op, called with these arguments
Call(op, arguments) ==
  CASE op = "get" -> getCall(arguments)
    [] op = "set" -> setCall(arguments)
    [] op = "keys" -> keysCall(arguments)
    [] op = "exists" -> existsCall(arguments)
    [] op = "del" -> delCall(arguments)
    [] op = "flush" -> flushCall(arguments)
    [] op = "fields" -> fieldsCall(arguments)

(***************************************************************************)
(* The engine behind the client: hash records kept per key, fields in      *)
(* insertion order.  A reply is [err, data, db]; values come back as bytes *)
(* or as text, as the client is configured.                                *)
(***************************************************************************)
Wire(text, asBytes) == IF asBytes THEN Buf(text) ELSE Str(text)

HashHas(h, f) == \E i \in 1..Len(h) : h[i].k = f
HashGet(h, f) == h[CHOOSE i \in 1..Len(h) : h[i].k = f].v
HashSet(h, f, w) ==
  IF HashHas(h, f) THEN [i \in 1..Len(h) |-> IF h[i].k = f THEN Prop(f, w) ELSE h[i]]
  ELSE Append(h, Prop(f, w))
HashDel(h, fs) == SelectSeq(h, LAMBDA e : e.k \notin fs)

Record(d, k) == IF k \in DOMAIN d THEN d[k] ELSE <<>>
\* a record with no field left is no key of the engine
PutRecord(d, k, h) ==
  IF h = <<>> THEN [x \in DOMAIN d \ {k} |-> d[x]]
  ELSE [x \in DOMAIN d \cup {k} |-> IF x = k THEN h ELSE d[x]]

RECURSIVE HashSetAll(_, _, _)
HashSetAll(h, p, i) ==
  IF i > Len(p) THEN h ELSE HashSetAll(HashSet(h, p[i].k, ToText(p[i].v)), p, i + 1)

RECURSIVE ReplyObject(_, _, _)
ReplyObject(h, asBytes, i) ==
  IF i = 0 THEN <<>>
  ELSE ObjSet(ReplyObject(h, asBytes, i - 1), h[i].k, Wire(h[i].v, asBytes))

\* glob matching of KEYS: * and ?
RECURSIVE Glob(_, _)
Glob(p, s) ==
  IF p = <<>> THEN s = <<>>
  ELSE IF p[1] = "*" THEN Glob(Tail(p), s) \/ (s # <<>> /\ Glob(p, Tail(s)))
  ELSE s # <<>> /\ (p[1] = "?" \/ p[1] = s[1]) /\ Glob(Tail(p), Tail(s))

\* the orders in which the engine may list a set of names
Orders(S) == {o \in [1..Cardinality(S) -> S] : \A x \in S : \E i \in DOMAIN o : o[i] = x}

Reply(err, data, d) == [err |-> err, data |-> data, db |-> d]
WrongArgs == Err("ERR wrong number of arguments")

\* the engine's answer to command c on records d
Exec(c, d, asBytes, order) ==
  LET k == ToText(c.key)
      h == Record(d, k)
  IN CASE c.cmd = "hgetall" ->
            Reply(Null, IF h = <<>> THEN Null ELSE Obj(ReplyObject(h, asBytes, Len(h))), d)
       [] c.cmd = "hmget" ->
            Reply(Null,
                  Arr([i \in 1..Len(c.arg.a) |->
                         IF HashHas(h, ToText(c.arg.a[i]))
                         THEN Wire(HashGet(h, ToText(c.arg.a[i])), asBytes) ELSE Null]),
                  d)
       [] c.cmd = "hmset" ->
            IF c.arg.t = "object" /\ c.arg.p # <<>>
            THEN Reply(Null, Wire(<<"O", "K">>, asBytes), PutRecord(d, k, HashSetAll(h, c.arg.p, 1)))
            ELSE Reply(WrongArgs, Undef, d)
       [] c.cmd = "hexists" ->
            LET n == IF HashHas(h, ToText(c.arg)) THEN 1 ELSE 0
            IN Reply(Null, IF asBytes THEN Buf(NumToText(n)) ELSE Num(n), d)
       [] c.cmd = "hdel" ->
            LET fs == {ToText(c.arg.a[i]) : i \in 1..Len(c.arg.a)}
            IN IF fs = {} THEN Reply(WrongArgs, Undef, d)
               ELSE Reply(Null, Num(Cardinality({f \in fs : HashHas(h, f)})),
                          PutRecord(d, k, HashDel(h, fs)))
       [] c.cmd = "hkeys" ->
            Reply(Null, Arr([i \in 1..Len(h) |-> Wire(h[i].k, asBytes)]), d)
       [] c.cmd = "keys" ->
            Reply(Null, Arr([i \in 1..Len(order) |-> Wire(order[i], asBytes)]), d)
       [] c.cmd = "del" ->
            LET ks == {ToText(c.arg.a[i]) : i \in 1..Len(c.arg.a)}
            IN Reply(Null, Num(Cardinality(ks \cap DOMAIN d)),
                     [x \in DOMAIN d \ ks |-> d[x]])

\* the key names a keys command matches
Matched(c, d) ==
  IF c.cmd = "keys" THEN {x \in DOMAIN d : Glob(ToText(c.key), x)} ELSE {}

(***************************************************************************)
(* The callbacks the operations hand to the client                         *)
(***************************************************************************)
RECURSIVE wrapAll(_, _, _, _)
\* Object.keys(data).forEach(value => wrapData(output, value, data[value], asBuffer, cast))
wrapAll(data, i, asBuffer, cast) ==
  IF i = 0 THEN <<>>
  ELSE wrapData(wrapAll(data, i - 1, asBuffer, cast), Str(data[i].k), data[i].v, asBuffer, cast)

RECURSIVE wrapEach(_, _, _, _, _)
\* args.forEach((value, index) => wrapData(output, value, data[index], asBuffer, cast))
wrapEach(args, data, i, asBuffer, cast) ==
  IF i = 0 THEN <<>>
  ELSE wrapData(wrapEach(args, data, i - 1, asBuffer, cast), args[i], data[i], asBuffer, cast)

\* get: function iterator(err, data) of the hgetall branch
hgetallReply(c, err, data) ==
  LET output == IF Truthy(data) /\ data.t = "object"
                THEN Obj(wrapAll(data.p, Len(data.p), c.raw, _autoCast))
                ELSE Undef
  IN <<Invoke(c.cb, <<err, output>>)>>

\* get: function(err, data) of the hmget branch
hmgetReply(c, err, data) ==
  LET args == c.arg.a
      val == IF data.t = "array" /\ data.a # <<>> THEN data.a[1] ELSE Undef
      output == IF data.t # "array" THEN Undef
                ELSE IF Len(args) = 1
                     THEN (IF c.raw = Bool(TRUE) /\ IsBuffer(val) THEN val
                           ELSE convertValue(val, _autoCast))
                ELSE IF Len(args) = Len(data.a)
                     THEN Obj(wrapEach(args, data.a, Len(args), c.raw, _autoCast))
                ELSE Undef
  IN <<Invoke(c.cb, <<err, IF output = Undef THEN Null ELSE output>>)>>

\* keys.map(convertValue), fields.map(convertValue): map passes (value, index)
mapConvert(list) == Arr([i \in 1..Len(list) |-> convertValue(list[i], Num(i - 1))])

listReply(c, err, data) ==
  <<Invoke(c.cb, <<err, IF IsArray(data) THEN mapConvert(data.a) ELSE data>>)>>

\* parseInt(text, 10) of the replies hexists can give
parseInt(text) ==
  LET from == SkipWs(text, 1)
      to == DigitsEnd(text, from)
  IN IF to = from THEN NaN ELSE Num(TextToNat(SubSeq(text, from, to - 1)))

\* a faulty hexists callback that compares the reply without parseInt
existsReplyBug(c, err, exists) ==
  <<Invoke(c.cb, <<Null, Bool(exists = Num(1))>>)>>

existsReply(c, err, exists) ==
  LET val == IF IsBuffer(exists) THEN parseInt(exists.bytes) ELSE exists
  IN <<Invoke(c.cb, <<Null, Bool(val = Num(1))>>)>>

delReply(c, err, data) ==
  IF IsFunction(c.cb) THEN <<Invoke(c.cb, <<err>>)>> ELSE <<>>

\* set and flush hand the caller's callback (or noop) to the client itself
directReply(c, err, data) ==
  IF IsFunction(c.cb) /\ c.cb # Noop THEN <<Invoke(c.cb, <<err, data>>)>> ELSE <<>>

\* the callbacks run when the client answers command c with (err, data)
Answer(c, err, data) ==
  CASE c.cmd = "hgetall" -> hgetallReply(c, err, data)
    [] c.cmd = "hmget" -> hmgetReply(c, err, data)
    [] c.cmd \in {"keys", "hkeys"} -> listReply(c, err, data)
    [] c.cmd = "hexists" -> existsReply(c, err, data)
    [] c.cmd = "hdel" -> delReply(c, err, data)
    [] c.cmd \in {"hmset", "del"} -> directReply(c, err, data)

(***************************************************************************)
(* Steps                                                                   *)
(***************************************************************************)
Event(kind, op, arguments, cmd, err, data, o, emitted) ==
  [kind |-> kind, op |-> op, args |-> arguments, cmd |-> cmd, err |-> err, data |-> data,
   calls |-> o.calls, issued |-> o.issued, ret |-> o.ret, threw |-> o.threw,
   emitted |-> emitted]

\* the connection error of a client whose stream ended
ConnectionError == Err("Stream connection ended and command aborted.")

\* new RedisStore({delimiter, autoCast, client}) over an engine holding records d
ConstructWith(optDelimiter, optAutoCast, optClient, d) ==
  /\ delimiter = CtorDelimiter(optDelimiter)
  /\ autoCast = CtorAutoCast(optAutoCast)
  /\ client = CtorClient(optClient)
  /\ db = d
  /\ pending = <<>>
  /\ answered = <<>>
  /\ event = Event("init", "new", <<optDelimiter, optAutoCast, optClient>>, NoCommand, Undef,
                   Undef, Nothing, <<>>)

\* new RedisStore({client, delimiter, autoCast}) with a client the caller supplies
Construct(optDelimiter, optAutoCast, d) ==
  ConstructWith(optDelimiter, optAutoCast, SuppliedClient, d)

\* a faulty operation whose command overtakes the commands issued before it
CallStepFirstBug(op, arguments) ==
  LET o == Call(op, arguments)
  IN /\ pending' = o.issued \o pending
     /\ event' = Event("call", op, arguments, NoCommand, Undef, o.data, o, <<>>)
     /\ UNCHANGED <<delimiter, autoCast, client, db, answered>>

\* store[op](...arguments): the synchronous part of an operation
CallStep(op, arguments) ==
  LET o == Call(op, arguments)
  IN /\ pending' = pending \o o.issued
     /\ event' = Event("call", op, arguments, NoCommand, Undef, o.data, o, <<>>)
     /\ UNCHANGED <<delimiter, autoCast, client, db, answered>>

\* the engine answers the oldest command, or the connection fails it
AnswerStep ==
  /\ pending # <<>>
  /\ LET c == Head(pending)
     IN \E asBytes \in BOOLEAN, fail \in BOOLEAN, order \in Orders(Matched(c, db)) :
          LET r == IF fail THEN Reply(ConnectionError, Undef, db)
                   ELSE Exec(c, db, asBytes, order)
          IN /\ db' = r.db
             /\ pending' = Tail(pending)
             /\ event' = Event("reply", c.op, <<>>, c, r.err, r.data,
                               Outcome(Answer(c, r.err, r.data), <<>>, "this", FALSE, Undef),
                               <<>>)
  /\ UNCHANGED <<delimiter, autoCast, client, answered>>

\* the engine executes the oldest command; the client holds the answer until
\* it delivers it
ExecuteStep ==
  /\ pending # <<>>
  /\ LET c == Head(pending)
     IN \E asBytes \in BOOLEAN, fail \in BOOLEAN, order \in Orders(Matched(c, db)) :
          LET r == IF fail THEN Reply(ConnectionError, Undef, db)
                   ELSE Exec(c, db, asBytes, order)
          IN /\ db' = r.db
             /\ pending' = Tail(pending)
             /\ answered' = Append(answered, [c |-> c, err |-> r.err, data |-> r.data,
                                              done |-> FALSE])
             /\ event' = Event("execute", c.op, <<>>, c, r.err, r.data, Nothing, <<>>)
  /\ UNCHANGED <<delimiter, autoCast, client>>

\* the callbacks of an executed command run, whichever of the waiting answers
\* comes first
DeliverStep ==
  /\ \E i \in 1..Len(answered) :
       LET a == answered[i]
       IN /\ ~a.done
          /\ answered' = [answered EXCEPT ![i].done = TRUE]
          /\ event' = Event("reply", a.c.op, <<>>, a.c, a.err, a.data,
                            Outcome(Answer(a.c, a.err, a.data), <<>>, "this", FALSE, Undef),
                            <<>>)
  /\ UNCHANGED <<delimiter, autoCast, client, db, pending>>

\* a faulty forwarding that emits 'error' without the error
SignalStepBug(name, payload) ==
  /\ event' = Event("signal", name, payload, NoCommand, Undef, Undef, Nothing,
                    <<[name |-> name, args |-> <<>>]>>)
  /\ UNCHANGED <<delimiter, autoCast, client, db, pending, answered>>

\* client.on(name, ...) of the constructor: the client raises a lifecycle
\* signal and the store emits it again, 'error' with the error it came with
SignalStep(name, payload) ==
  /\ event' = Event("signal", name, payload, NoCommand, Undef, Undef, Nothing,
                    <<[name |-> name,
                       args |-> IF name = "error" THEN <<Param(payload, 1)>> ELSE <<>>]>>)
  /\ UNCHANGED <<delimiter, autoCast, client, db, pending, answered>>

\* store[prop] = value: delimiter, autoCast and client are defined with
\* writable: false, the assignment changes nothing
AssignStep(prop, value) ==
  /\ event' = Event("assign", prop, <<value>>, NoCommand, Undef, Undef, Nothing, <<>>)
  /\ UNCHANGED <<delimiter, autoCast, client, db, pending, answered>>

\* store.cacheKey(key), called by the user of the store
CacheKeyStep(key) ==
  /\ event' = Event("call", "cacheKey", <<key>>, NoCommand, Undef, cacheKey(key),
                    Outcome(<<>>, <<>>, "value", FALSE, Undef), <<>>)
  /\ UNCHANGED <<delimiter, autoCast, client, db, pending, answered>>

(***************************************************************************)
(* Texts and values of the scenarios                                       *)
(***************************************************************************)
icao == <<"i", "c", "a", "o">>
more == <<"m", "o", "r", "e">>
alpha == <<"a", "l", "p", "h", "a">>
xray == <<"x", "r", "a", "y">>
n13 == <<"1", "3">>
dashdot == <<"d", "a", "s", "h", " ", "d", "o", "t">>
cbDone == Fn("cb")

\* sequences over S of length 0..n
RECURSIVE SeqsUpTo(_, _)
SeqsUpTo(S, n) ==
  IF n = 0 THEN {<<>>}
  ELSE SeqsUpTo(S, n - 1) \cup {Append(q, x) : q \in {r \in SeqsUpTo(S, n - 1) : Len(r) = n - 1}, x \in S}

(***************************************************************************)
(* SpecRead: one caller reading, one call at a time, from records that     *)
(* were stored before                                                      *)
(***************************************************************************)
MaxFields == 2

ReadNames == {alpha, n13}
ReadTexts == {n13, dashdot, ToText(Bool(TRUE)), ToText(Null),
              JSONText(Obj(<<Prop(<<"a">>, Num(1))>>)), <<" ", "7">>, <<>>}
ReadRecords ==
  {<<>>}
    \cup {<<Prop(f, w)>> : f \in ReadNames, w \in ReadTexts}
    \cup {<<Prop(alpha, w), Prop(n13, n13)>> : w \in ReadTexts}
ReadFlags == {<<>>, <<Bool(FALSE)>>, <<Bool(TRUE)>>}
ReadFields == SeqsUpTo({Str(f) : f \in ReadNames}, MaxFields)
ReadArgs ==
  {<<k>> \o r \o fs \o <<cbDone>> : k \in {Str(icao), Null}, r \in ReadFlags, fs \in ReadFields}
    \cup {<<Arr(<<Str(icao)>>), Arr(r \o fs), cbDone>> : r \in ReadFlags, fs \in ReadFields}

InitRead ==
  \E c \in {Undef, Bool(FALSE)}, h \in ReadRecords :
    Construct(Undef, c, IF h = <<>> THEN <<>> ELSE [k \in {icao} |-> h])

ReadCall == pending = <<>> /\ \E a \in ReadArgs : CallStep("get", a)

NextRead == ReadCall \/ AnswerStep

SpecRead == InitRead /\ [][NextRead]_vars

(***************************************************************************)
(* Spec: one caller using all seven operations, one call at a time, with   *)
(* valid and invalid keys, with and without a callback, while the client   *)
(* raises lifecycle signals                                                *)
(***************************************************************************)
icStar == <<"i", "c", "*">>
fnOther == Fn("fn")
KeyInputs ==
  {Str(icao), Arr(<<Str(icao), Str(more)>>), Num(7), Num(0), Null, Undef, Str(<<>>),
   Arr(<<>>), Arr(<<Null>>), Bool(TRUE), Obj(<<>>), fnOther}
PatternInputs ==
  {Str(icStar), Arr(<<Str(icao), Str(<<"*">>)>>), Num(7), Null, Undef, Str(<<>>), Arr(<<>>),
   Bool(TRUE), Obj(<<>>)}
Callbacks == {<<>>, <<cbDone>>}

GetArgs == {<<k>> \o m \o c : k \in KeyInputs, m \in {<<>>, <<Str(alpha)>>}, c \in Callbacks}
SetArgs ==
  {<<k>> \o m \o c :
     k \in KeyInputs, c \in Callbacks,
     m \in {<<>>, <<Str(alpha), Num(13)>>, <<Obj(<<Prop(alpha, Num(13))>>)>>}}
DelArgs == {<<k>> \o m \o c : k \in KeyInputs, m \in {<<>>, <<Str(alpha)>>}, c \in Callbacks}
ExistsArgs ==
  {<<k, f>> \o c : k \in KeyInputs, f \in {Str(alpha), Null}, c \in Callbacks}
    \cup {<<k>> \o c : k \in KeyInputs, c \in Callbacks}
FieldsArgs == {<<k>> \o c : k \in KeyInputs, c \in Callbacks}
KeysArgs == {<<q>> \o c : q \in PatternInputs, c \in Callbacks}
FlushArgs ==
  {ks \o c : ks \in {<<>>, <<Str(icao)>>, <<Num(7), Arr(<<Str(icao), Str(more)>>)>>,
                     <<Arr(<<Str(icao), Str(icao)>>)>>, <<Null>>},
             c \in Callbacks}
\* every operation may also be called with the callback alone or with nothing
BareArgs == {<<>>, <<cbDone>>}

Signals == {<<"ready", <<>>>>, <<"connect", <<>>>>, <<"end", <<>>>>,
            <<"error", <<ConnectionError>>>>}

Init ==
  \E o \in {<<Undef, Undef>>, <<Str(<<"-">>), Bool(FALSE)>>} :
    Construct(o[1], o[2], [k \in {icao} |-> <<Prop(alpha, n13)>>])

GetCall == pending = <<>> /\ \E a \in GetArgs \cup BareArgs : CallStep("get", a)
SetCall == pending = <<>> /\ \E a \in SetArgs \cup BareArgs : CallStep("set", a)
DelCall == pending = <<>> /\ \E a \in DelArgs \cup BareArgs : CallStep("del", a)
ExistsCall == pending = <<>> /\ \E a \in ExistsArgs \cup BareArgs : CallStep("exists", a)
FieldsCall == pending = <<>> /\ \E a \in FieldsArgs \cup BareArgs : CallStep("fields", a)
KeysCall == pending = <<>> /\ \E a \in KeysArgs \cup BareArgs : CallStep("keys", a)
FlushCall == pending = <<>> /\ \E a \in FlushArgs \cup BareArgs : CallStep("flush", a)
Signal == \E g \in Signals : SignalStep(g[1], g[2])

Next ==
  \/ GetCall
  \/ SetCall
  \/ DelCall
  \/ ExistsCall
  \/ FieldsCall
  \/ KeysCall
  \/ FlushCall
  \/ AnswerStep
  \/ Signal

Spec == Init /\ [][Next]_vars

(***************************************************************************)
(* SpecSet: one caller writing field/value lists of every shape to one     *)
(* record, one call at a time                                              *)
(***************************************************************************)
MaxData == 4

SetNames == {Str(alpha), Str(n13)}
SetValues == {Num(13), Str(dashdot), Buf(dashdot)}
\* name, value, name, value, ... of length n
RECURSIVE DataLists(_)
DataLists(n) ==
  IF n = 0 THEN {<<>>}
  ELSE {Append(q, x) : q \in DataLists(n - 1),
                       x \in IF n % 2 = 1 THEN SetNames ELSE SetValues}
SetData == UNION {DataLists(n) : n \in 0..MaxData}
\* the field map { name: value, ... } a caller writes for the pairs of a list
RECURSIVE FieldMap(_, _)
FieldMap(a, n) ==
  IF n < 2 THEN <<>>
  ELSE ObjSet(FieldMap(a, n - 2), ToText(a[n - 1]), a[n])
PairsOf(a) == FieldMap(a, 2 * (Len(a) \div 2))

InitSet == \E c \in {Undef, Bool(FALSE)} : Construct(Undef, c, <<>>)

SetList == pending = <<>> /\ \E a \in SetData : CallStep("set", <<Str(icao)>> \o a \o <<cbDone>>)
SetArray == pending = <<>> /\ \E a \in SetData : CallStep("set", <<Str(icao), Arr(a), cbDone>>)
SetObject ==
  pending = <<>> /\ \E a \in SetData : CallStep("set", <<Str(icao), Obj(PairsOf(a)), cbDone>>)

NextSet == SetList \/ SetArray \/ SetObject \/ AnswerStep

SpecSet == InitSet /\ [][NextSet]_vars

(***************************************************************************)
(* SpecRound: one caller writing one value to a field and reading single   *)
(* fields back, one call at a time                                         *)
(***************************************************************************)
JSONValues ==
  {Num(13), Num(0), Num(-5), Bool(TRUE), Bool(FALSE), Obj(<<>>),
   Obj(<<Prop(n13, Num(1)), Prop(<<"a">>, Str(<<"x", "\"">>))>>),
   Arr(<<>>), Arr(<<Num(1), Str(dashdot), Null>>)}
RoundValues == JSONValues \cup {Str(dashdot), Str(n13), Buf(n13), Null}

InitRound == \E c \in {Undef, Bool(FALSE)} : Construct(Undef, c, <<>>)

RoundSet ==
  pending = <<>> /\ \E v \in RoundValues :
    \/ CallStep("set", <<Str(icao), Str(alpha), v, cbDone>>)
    \/ CallStep("set", <<Str(icao), Obj(<<Prop(xray, v)>>), cbDone>>)
RoundGet ==
  pending = <<>> /\ \E f \in {alpha, xray}, r \in {<<>>, <<Bool(FALSE)>>} :
    CallStep("get", <<Str(icao)>> \o r \o <<Str(f), cbDone>>)

NextRound == RoundSet \/ RoundGet \/ AnswerStep

SpecRound == InitRound /\ [][NextRound]_vars

(***************************************************************************)
(* SpecRemove: one caller deleting fields, clearing keys, asking whether a *)
(* field exists and writing fields, one call at a time, over two records   *)
(***************************************************************************)
MaxNamed == 2

RemoveKeys == {Str(icao), Str(more)}
RemoveFields == {Str(alpha), Str(n13), Str(xray)}
\* keys a caller clears: the two records and a key that holds no record
ClearKeys == RemoveKeys \cup {Str(xray)}
NamedLists(S) == {q \in SeqsUpTo(S, MaxNamed) : q # <<>>}

InitRemove ==
  Construct(Undef, Undef,
            [k \in {icao, more} |->
               IF k = icao THEN <<Prop(alpha, dashdot), Prop(n13, n13)>>
               ELSE <<Prop(alpha, n13)>>])

DelList ==
  pending = <<>> /\ \E k \in RemoveKeys, fs \in NamedLists(RemoveFields) :
    CallStep("del", <<k>> \o fs \o <<cbDone>>)
DelArray ==
  pending = <<>> /\ \E k \in RemoveKeys, fs \in NamedLists(RemoveFields) :
    CallStep("del", <<k, Arr(fs), cbDone>>)
FlushList ==
  pending = <<>> /\ \E ks \in NamedLists(ClearKeys) : CallStep("flush", ks \o <<cbDone>>)
FlushArray ==
  pending = <<>> /\ \E ks \in NamedLists(ClearKeys) : CallStep("flush", <<Arr(ks), cbDone>>)
ExistsField ==
  pending = <<>> /\ \E k \in RemoveKeys, f \in RemoveFields :
    CallStep("exists", <<k, f, cbDone>>)
WriteField ==
  pending = <<>> /\ \E k \in RemoveKeys, f \in {Str(alpha), Str(xray)} :
    CallStep("set", <<k, f, Num(13), cbDone>>)

NextRemove ==
  \/ DelList
  \/ DelArray
  \/ FlushList
  \/ FlushArray
  \/ ExistsField
  \/ WriteField
  \/ AnswerStep

SpecRemove == InitRemove /\ [][NextRemove]_vars

(***************************************************************************)
(* SpecKey: cacheKey applied to single keys and to sequences of segments,  *)
(* on stores constructed with different delimiters                         *)
(***************************************************************************)
MaxSegs == 3

Segments == {Str(alpha), Str(more), Str(<<>>), Num(13), Num(-5)}
Delimiters == {Undef, Str(<<"-">>), Str(<<>>), Num(0), Null}
KeySeqs == {Arr(q) : q \in SeqsUpTo(Segments, MaxSegs)}

InitKey == \E d \in Delimiters : Construct(d, Undef, <<>>)

KeyCall ==
  \E k \in KeySeqs \cup Segments \cup {Null, Undef, Bool(TRUE), Bool(FALSE), Obj(<<>>)} :
    CacheKeyStep(k)

NextKey == KeyCall

SpecKey == InitKey /\ [][NextKey]_vars

(***************************************************************************)
(* SpecNames: one caller listing the fields of records and searching keys, *)
(* one call at a time, over records whose key and field names include      *)
(* texts that are valid JSON                                               *)
(***************************************************************************)
NameKeys == {icao, more, n13}
NameFields ==
  {<<alpha>>, <<alpha, xray>>, <<alpha, n13>>, <<ToText(Bool(TRUE)), alpha>>, <<ToText(Null)>>}
NamePatterns == {Str(icStar), Str(<<"*">>), Str(<<"1", "?">>), Str(xray)}

InitNames ==
  \E K \in SUBSET NameKeys, fs \in NameFields :
    Construct(Undef, Undef, [k \in K |-> [i \in 1..Len(fs) |-> Prop(fs[i], dashdot)]])

FieldsList ==
  pending = <<>> /\ \E k \in {Str(icao), Str(n13), Num(13)} : CallStep("fields", <<k, cbDone>>)
KeysSearch ==
  pending = <<>> /\ \E q \in NamePatterns : CallStep("keys", <<q, cbDone>>)

NextNames == FieldsList \/ KeysSearch \/ AnswerStep

SpecNames == InitNames /\ [][NextNames]_vars

(***************************************************************************)
(* SpecTwice: one caller writing a field map and, once the write has       *)
(* completed, writing the same object again                                *)
(***************************************************************************)
cbAgain == Fn("again")
TwiceValues ==
  {Num(13), Str(dashdot), Str(n13), Buf(n13), Bool(TRUE), Null, Undef,
   Obj(<<Prop(<<"a">>, Str(<<"x">>))>>), Arr(<<Num(1), Str(n13)>>)}
TwiceMaps ==
  {Obj(<<Prop(alpha, v)>>) : v \in TwiceValues}
    \cup {Obj(<<Prop(n13, v), Prop(alpha, w)>>) : v \in TwiceValues, w \in {Num(13), Str(dashdot)}}

InitTwice ==
  \E c \in {Undef, Bool(FALSE)}, d \in {<<>>, [k \in {icao} |-> <<Prop(alpha, dashdot)>>]} :
    Construct(Undef, c, d)

WriteFirst ==
  pending = <<>> /\ \E o \in TwiceMaps : CallStep("set", <<Str(icao), o, cbDone>>)
\* the object handed to hmset is the caller's own object, as set left it
WriteAgain ==
  /\ pending = <<>>
  /\ event.kind = "reply" /\ event.cmd.cmd = "hmset" /\ event.err = Null
  /\ CallStep("set", <<Str(icao), event.cmd.arg, cbAgain>>)

NextTwice == WriteFirst \/ WriteAgain \/ AnswerStep

SpecTwice == InitTwice /\ [][NextTwice]_vars

(***************************************************************************)
(* SpecConfig: stores constructed with every kind of option, then used:    *)
(* writes, reads, lifecycle signals and assignments to the configuration   *)
(***************************************************************************)
ConfigDelimiters ==
  {Undef, Null, Str(<<>>), Str(<<"-">>), Str(<<":", ":">>), Num(0), Num(7), NaN, Bool(TRUE),
   Obj(<<>>)}
ConfigCasts == {Undef, Null, Bool(FALSE), Bool(TRUE), Num(0), Str(<<>>)}
ConfigClients == {SuppliedClient, Undef}
Assignments ==
  {<<"delimiter", Str(<<"-">>)>>, <<"delimiter", Undef>>, <<"autoCast", Bool(FALSE)>>,
   <<"autoCast", Bool(TRUE)>>, <<"client", Null>>, <<"client", CreatedClient>>}

InitConfig ==
  \E d \in ConfigDelimiters, c \in ConfigCasts, h \in ConfigClients :
    ConstructWith(d, c, h, <<>>)

ConfigAssign == \E a \in Assignments : AssignStep(a[1], a[2])
ConfigWrite ==
  pending = <<>> /\ CallStep("set", <<Arr(<<Str(icao), Str(more)>>), Str(alpha), Num(13), cbDone>>)
ConfigRead ==
  pending = <<>> /\ CallStep("get", <<Arr(<<Str(icao), Str(more)>>), Str(alpha), cbDone>>)
ConfigSignal == \E g \in Signals : SignalStep(g[1], g[2])

NextConfig ==
  \/ ConfigAssign
  \/ ConfigWrite
  \/ ConfigRead
  \/ ConfigSignal
  \/ AnswerStep

SpecConfig == InitConfig /\ [][NextConfig]_vars

(***************************************************************************)
(* SpecRace: two writes to the same field of one record, the second called *)
(* while the first may still be on its way; the engine executes commands   *)
(* in the order they arrive and the two answers are delivered in any order *)
(***************************************************************************)
RaceValues == {Num(13), Num(0), Str(dashdot), Buf(n13), Bool(TRUE), Obj(<<>>)}

InitRace ==
  \E c \in {Undef, Bool(FALSE)}, d \in {<<>>, [k \in {icao} |-> <<Prop(alpha, dashdot)>>]} :
    Construct(Undef, c, d)

\* the commands of the callback cb that are on their way or executed
Sent(cb) ==
  {i \in 1..Len(pending) : pending[i].cb = cb}
    \cup {Len(pending) + i : i \in {j \in 1..Len(answered) : answered[j].c.cb = cb}}

RaceFirst ==
  /\ Sent(cbDone) = {} /\ Sent(cbAgain) = {}
  /\ \E v \in RaceValues : CallStep("set", <<Str(icao), Str(alpha), v, cbDone>>)
RaceSecond ==
  /\ Sent(cbDone) # {} /\ Sent(cbAgain) = {}
  /\ \E v \in RaceValues : CallStep("set", <<Str(icao), Str(alpha), v, cbAgain>>)

NextRace == RaceFirst \/ RaceSecond \/ ExecuteStep \/ DeliverStep

SpecRace == InitRace /\ [][NextRace]_vars

(***************************************************************************)
(* Reading the last step                                                   *)
(***************************************************************************)
\* the engine answered a get without an error and the callback was called once
GetReplied ==
  /\ event.kind = "reply"
  /\ event.op = "get"
  /\ event.err = Null
  /\ Len(event.calls) = 1
\* what the callback of the last step received
DeliveredError == event.calls[1].args[1]
Delivered == event.calls[1].args[2]
WireText(w) == IF IsBuffer(w) THEN w.bytes ELSE w.s
TypedRead == event.cmd.raw # Bool(TRUE)
SingleRead == event.cmd.cmd = "hmget" /\ Len(event.cmd.arg.a) = 1
MultiRead == event.cmd.cmd = "hmget" /\ Len(event.cmd.arg.a) >= 2
AllRead == event.cmd.cmd = "hgetall"
RequestedNames == [i \in 1..Len(event.cmd.arg.a) |-> ToText(event.cmd.arg.a[i])]

\* every present value w of the engine's answer that Applies reaches the caller
\* as Dec(w), in each of the three read shapes
GetDelivers(Dec(_), Applies(_)) ==
  /\ SingleRead =>
       LET w == event.data.a[1]
       IN (w # Null /\ Applies(w)) => Delivered = Dec(w)
  /\ MultiRead =>
       /\ Delivered.t = "object"
       /\ \A i \in 1..Len(event.data.a) :
            LET w == event.data.a[i]
            IN (w # Null /\ Applies(w)) =>
                 /\ HasOwn(Delivered.p, RequestedNames[i])
                 /\ GetOwn(Delivered.p, RequestedNames[i]) = Dec(w)
  /\ (AllRead /\ event.data # Null) =>
       /\ Delivered.t = "object"
       /\ \A i \in 1..Len(event.data.p) :
            LET w == event.data.p[i].v
            IN Applies(w) =>
                 /\ HasOwn(Delivered.p, event.data.p[i].k)
                 /\ GetOwn(Delivered.p, event.data.p[i].k) = Dec(w)

Always(w) == TRUE
AsText(w) == Str(WireText(w))
AsJSONOrText(w) ==
  IF JSONparse(WireText(w)).ok THEN JSONparse(WireText(w)).v ELSE Str(WireText(w))
Same(w) == w

(***************************************************************************)
(* Claims about reads, under SpecRead                                      *)
(***************************************************************************)
\* C3: on a store constructed with autoCast false, a typed read (one field,
\* several fields or all fields) delivers every stored text as that same text,
\* with no JSON parsing: "13" is read as the string "13"
C3_CastDisabledReadsText ==
  (GetReplied /\ ~autoCast /\ TypedRead) => GetDelivers(AsText, Always)

\* C5: with autoCast enabled and raw mode not requested, a read decodes each
\* present value: bytes become text, text that is valid JSON is delivered
\* parsed ("13" as the number 13), any other text is delivered unchanged
C5_TypedReadDecodes ==
  (GetReplied /\ autoCast /\ TypedRead) =>
    /\ GetDelivers(AsJSONOrText, Always)
    /\ (SingleRead /\ event.data.a[1] \in {Buf(n13), Str(n13)}) => Delivered = Num(13)
    /\ (SingleRead /\ event.data.a[1] \in {Buf(dashdot), Str(dashdot)}) =>
         Delivered = Str(dashdot)

\* C5 witness: a read of two fields answered in bytes, one holding JSON text
\* and one holding other text
C5_Witness ==
  /\ GetReplied /\ autoCast /\ TypedRead /\ MultiRead
  /\ event.data = Arr(<<Buf(dashdot), Buf(n13)>>)
  /\ Delivered = Obj(<<Prop(n13, Num(13)), Prop(alpha, Str(dashdot))>>)

\* C6: reading a field that was never written gives no error: a read of one
\* field delivers null, a read of several fields delivers a map in which each
\* unwritten requested field is present and null, with raw mode off and on
C6_MissingFieldIsNull ==
  GetReplied =>
    LET h == Record(db, ToText(event.cmd.key))
    IN /\ (SingleRead /\ ~HashHas(h, RequestedNames[1])) =>
            event.calls = <<Invoke(event.cmd.cb, <<Null, Null>>)>>
       /\ MultiRead =>
            /\ DeliveredError = Null
            /\ Delivered.t = "object"
            /\ \A i \in 1..Len(RequestedNames) :
                 ~HashHas(h, RequestedNames[i]) =>
                   /\ HasOwn(Delivered.p, RequestedNames[i])
                   /\ GetOwn(Delivered.p, RequestedNames[i]) = Null

\* C6 witness: a raw read of two fields of which one was never written
C6_Witness ==
  /\ GetReplied /\ ~TypedRead /\ MultiRead
  /\ RequestedNames = <<alpha, n13>>
  /\ db = [k \in {icao} |-> <<Prop(n13, dashdot)>>]
  /\ Delivered = Obj(<<Prop(n13, Buf(dashdot)), Prop(alpha, Null)>>)

\* C7: a read naming n >= 2 distinct fields delivers a map whose keys are the
\* requested names in request order, each mapped to the decoding of the
\* answer at the same position; a read naming one field delivers the bare
\* decoded value
C7_RequestOrder ==
  GetReplied =>
    /\ (MultiRead /\ \A i, j \in 1..Len(RequestedNames) :
                       i # j => RequestedNames[i] # RequestedNames[j]) =>
         /\ Delivered.t = "object"
         /\ ObjKeys(Delivered.p) = RequestedNames
         /\ \A i \in 1..Len(RequestedNames) :
              GetOwn(Delivered.p, RequestedNames[i])
                = wrapValue(event.data.a[i], event.cmd.raw, _autoCast)
    /\ SingleRead =>
         Delivered = (IF event.data.a[1] = Null THEN Null
                      ELSE wrapValue(event.data.a[1], event.cmd.raw, _autoCast))

\* C8: a read with a valid key and no field name (raw flag absent or false)
\* issues hgetall and delivers a new map holding exactly the fields stored in
\* the record, each mapped to its typed decoding
C8_ReadAll ==
  /\ (event.kind = "call" /\ event.op = "get" /\ Len(event.args) >= 2
        /\ Truthy(cacheKey(event.args[1]))
        /\ (SubSeq(event.args, 2, Len(event.args) - 1)
              \in {<<>>, <<Bool(FALSE)>>, <<Arr(<<>>)>>, <<Arr(<<Bool(FALSE)>>)>>})) =>
       /\ Len(event.issued) = 1
       /\ event.issued[1].cmd = "hgetall"
  /\ (GetReplied /\ AllRead /\ TypedRead) =>
       LET h == Record(db, ToText(event.cmd.key))
       IN /\ Delivered.t = "object"
          /\ {Delivered.p[i].k : i \in 1..Len(Delivered.p)} = {h[i].k : i \in 1..Len(h)}
          /\ \A i \in 1..Len(h) :
               GetOwn(Delivered.p, h[i].k) = convertValue(Str(h[i].v), Bool(autoCast))

\* C9: with raw mode requested, every present value the engine returns as
\* bytes reaches the caller as the same bytes, in all three read shapes
C9_RawReadKeepsBytes ==
  (GetReplied /\ ~TypedRead) => GetDelivers(Same, IsBuffer)

\* C9 witness: a raw read of all fields of a record whose bytes are JSON text
C9_Witness ==
  /\ GetReplied /\ ~TypedRead /\ AllRead
  /\ event.data = Obj(<<Prop(n13, Buf(n13)), Prop(alpha, Buf(ToText(Null)))>>)
  /\ Delivered = event.data

(***************************************************************************)
(* Claims about errors, under Spec                                         *)
(***************************************************************************)
\* a key input the key composer must reject: anything but a non-empty
\* sequence, a non-empty string or a number
KeyFails(k) ==
  ~ \/ (k.t = "array" /\ k.a # <<>>)
    \/ (k.t = "string" /\ k.s # <<>>)
    \/ k.t = "number"

\* a pattern input searchKeys must reject: anything but a non-empty string, a
\* number or a sequence that composes to a non-empty string
PatternFails(q) ==
  ~ \/ (q.t = "array" /\ q.a # <<>> /\ \E i \in 1..Len(q.a) : ToText(q.a[i]) # <<>>)
    \/ (q.t = "string" /\ q.s # <<>>)
    \/ q.t = "number"

\* the last step was a call of one of the six keyed operations that carried a
\* callable completion callback and a key (a pattern) failing validation,
\* the key being given or left out
InvalidKeyCall ==
  /\ event.kind = "call"
  /\ Len(event.args) >= 1
  /\ IsFunction(event.args[Len(event.args)])
  /\ \/ /\ event.op \in {"get", "set", "del"}
        /\ (Len(event.args) = 1 \/ KeyFails(event.args[1]))
     \/ /\ event.op = "exists"
        /\ Len(event.args) \in {1, 3}
        /\ KeyFails(event.args[1])
     \/ /\ event.op = "fields"
        /\ Len(event.args) \in {1, 2}
        /\ KeyFails(event.args[1])
     \/ /\ event.op = "keys"
        /\ Len(event.args) \in {1, 2}
        /\ PatternFails(event.args[1])

C2_EngineErrorPropagated ==
  (event.kind = "reply" /\ event.err # Null /\ IsFunction(event.cmd.cb) /\ event.cmd.cb # Noop) =>
    /\ Len(event.calls) = 1
    /\ event.calls[1].fn = event.cmd.cb
    /\ event.calls[1].args[1] = event.err
    /\ event.issued = <<>>
    /\ pending = <<>>

(***************************************************************************)
(* Claims about writes, under SpecRound and SpecSet                        *)
(***************************************************************************)
\* C4: with autoCast enabled, for every JSON-representable value v that is
\* neither bytes nor a string, set(key, field, v) sends and stores the JSON
\* text of v, and a later typed read of that one field delivers a value
\* equal to v; the number 13 is stored as the text "13" and read as 13
C4_RoundTrip ==
  autoCast =>
    /\ (event.kind = "call" /\ event.op = "set" /\ Len(event.args) = 4
          /\ event.args[3] \in JSONValues) =>
         /\ Len(event.issued) = 1
         /\ event.issued[1].cmd = "hmset"
         /\ event.issued[1].arg
              = Obj(<<Prop(ToText(event.args[2]), Str(JSONText(event.args[3])))>>)
         /\ event.args[3] = Num(13) => event.issued[1].arg.p[1].v = Str(n13)
    /\ (event.kind = "reply" /\ event.cmd.cmd = "hmset" /\ event.err = Null) =>
         \A i \in 1..Len(event.cmd.arg.p) :
           LET h == Record(db, ToText(event.cmd.key))
           IN /\ HashHas(h, event.cmd.arg.p[i].k)
              /\ HashGet(h, event.cmd.arg.p[i].k) = ToText(event.cmd.arg.p[i].v)
    /\ (GetReplied /\ TypedRead /\ SingleRead /\ event.data.a[1] # Null) =>
         /\ WireText(event.data.a[1]) = HashGet(Record(db, ToText(event.cmd.key)), RequestedNames[1])
         /\ \A v \in JSONValues :
              WireText(event.data.a[1]) = JSONText(v) => Delivered = v

\* C4 witness: an object written earlier is read back from its JSON bytes
C4_Witness ==
  /\ autoCast /\ GetReplied /\ TypedRead /\ SingleRead
  /\ RequestedNames = <<alpha>>
  /\ event.data = Arr(<<Buf(JSONText(Obj(<<Prop(n13, Num(1)), Prop(<<"a">>, Str(<<"x", "\"">>))>>)))>>)
  /\ Delivered = Obj(<<Prop(n13, Num(1)), Prop(<<"a">>, Str(<<"x", "\"">>))>>)

\* C10: for a valid key and n >= 2 data arguments a1..an, the one hmset
\* command carries exactly the map from each a(2i+1) to the encoding of
\* a(2i+2): a trailing unpaired name is dropped and a later pair overrides an
\* earlier one for the same name; the same arguments passed as one array, or
\* the same map passed as one object, give the same command
C10_WriteNormalised ==
  (event.kind = "call" /\ event.op = "set" /\ Len(event.args) >= 4
     /\ IsFunction(event.args[Len(event.args)]) /\ ~KeyFails(event.args[1])) =>
    LET key == event.args[1]
        cb == event.args[Len(event.args)]
        a == SubSeq(event.args, 2, Len(event.args) - 1)
        pairs == 1..(Len(a) \div 2)
        names == {ToText(a[2 * i - 1]) : i \in pairs}
        last(name) == CHOOSE i \in pairs :
                        /\ ToText(a[2 * i - 1]) = name
                        /\ \A j \in pairs : ToText(a[2 * j - 1]) = name => j <= i
    IN /\ Len(event.issued) = 1
       /\ event.issued[1].cmd = "hmset"
       /\ event.issued[1].key = cacheKey(key)
       /\ event.issued[1].arg.t = "object"
       /\ {event.issued[1].arg.p[i].k : i \in 1..Len(event.issued[1].arg.p)} = names
       /\ \A name \in names :
            GetOwn(event.issued[1].arg.p, name) = _stringify(a[2 * last(name)])
       /\ Call("set", <<key, Arr(a), cb>>).issued = event.issued
       /\ Call("set", <<key, Obj(PairsOf(a)), cb>>).issued = event.issued

\* C10 witness: two pairs for one name, given as a list
C10_Witness ==
  /\ event.kind = "call" /\ event.op = "set" /\ autoCast
  /\ event.args = <<Str(icao), Str(alpha), Num(13), Str(alpha), Buf(dashdot), cbDone>>
  /\ event.issued[1].arg = Obj(<<Prop(alpha, Buf(dashdot))>>)

(***************************************************************************)
(* Claims about argument validation, under SpecSet and Spec                *)
(***************************************************************************)
\* the last step was set(key, ..., cb) with a valid key, a callable callback
\* and data arguments that hold no field/value pair: no data argument, an
\* empty array, an empty field map, or one lone field name
NoPairsCall ==
  /\ event.kind = "call"
  /\ event.op = "set"
  /\ Len(event.args) \in {2, 3}
  /\ ~KeyFails(event.args[1])
  /\ IsFunction(event.args[Len(event.args)])
  /\ Len(event.args) = 3 => event.args[2] \in {Arr(<<>>), Obj(<<>>)} \/ event.args[2].t = "string"

\* C11: a set with a valid key whose data arguments resolve to zero
\* field/value pairs hands 'Invalid data' to the callback and issues no
\* engine command
C11_InvalidDataReported ==
  NoPairsCall =>
    /\ Len(event.calls) = 1
    /\ event.calls[1].fn = event.args[Len(event.args)]
    /\ event.calls[1].args[1] = Err("Invalid data")
    /\ event.issued = <<>>

\* the last step was exists called with a valid key and no field: the callback
\* in the field's position, or null/undefined passed as the field
NoFieldCall ==
  /\ event.kind = "call"
  /\ event.op = "exists"
  /\ Len(event.args) \in {2, 3}
  /\ ~KeyFails(event.args[1])
  /\ IsFunction(event.args[Len(event.args)])
  /\ Len(event.args) = 3 => event.args[2] \in {Null, Undef}

\* C12: exists with a valid key and a missing field hands 'Invalid field' to
\* the callback and issues no hexists command
C12_InvalidFieldReported ==
  NoFieldCall =>
    /\ Len(event.calls) = 1
    /\ event.calls[1].fn = event.args[Len(event.args)]
    /\ event.calls[1].args[1] = Err("Invalid field")
    /\ event.issued = <<>>

\* C13: every call of every operation returns the store itself, whatever
\* the arguments and whatever the callback returns
C13_ReturnsStore ==
  event.kind = "call" => (event.ret = "this" /\ ~event.threw)

\* the last step was flush called with a callable callback and key arguments
\* none of which the key composer accepts, or with no key argument
NoKeyFlush ==
  /\ event.kind = "call"
  /\ event.op = "flush"
  /\ Len(event.args) >= 1
  /\ IsFunction(event.args[Len(event.args)])
  /\ \A i \in 1..(Len(event.args) - 1) : KeyFails(event.args[i])

\* C17: flush called with a callable callback and no key argument that
\* resolves to a valid key hands 'Invalid key' to the callback and issues no
\* del command
C17_FlushInvalidKey ==
  NoKeyFlush =>
    /\ event.calls = <<Invoke(event.args[Len(event.args)], <<Err("Invalid key")>>)>>
    /\ event.issued = <<>>

(***************************************************************************)
(* Claims about key composition, under SpecKey                             *)
(***************************************************************************)
\* t1 + d + t2 + ... + tn, built from the left
RECURSIVE JoinedBy(_, _, _)
JoinedBy(ts, d, n) ==
  IF n = 1 THEN ts[1] ELSE JoinedBy(ts, d, n - 1) \o d \o ts[n]
\* the string form of a segment: a string is itself, an integer its decimal
SegmentText(g) == IF g.t = "string" THEN g.s ELSE NumToText(g.n)

\* C18: for every non-empty sequence of string or integer segments,
\* cacheKey gives the segments' string forms joined by the store's
\* delimiter; a single non-empty string and a single number are returned
\* unchanged, the number still a number
C18_KeyComposition ==
  (event.kind = "call" /\ event.op = "cacheKey") =>
    LET key == event.args[1]
    IN /\ (key.t = "array" /\ key.a # <<>>) =>
            event.data = Str(JoinedBy([i \in 1..Len(key.a) |-> SegmentText(key.a[i])],
                                      SegmentText(delimiter), Len(key.a)))
       /\ (key.t = "string" /\ key.s # <<>>) => event.data = key
       /\ key.t = "number" => event.data = key
       /\ (key = Arr(<<Str(alpha), Str(more)>>) /\ delimiter = Str(<<":">>)) =>
            event.data = Str(<<"a", "l", "p", "h", "a", ":", "m", "o", "r", "e">>)

\* C18 witness: ['alpha', 13, 'more'] on a store with delimiter '-'
C18_Witness ==
  /\ event.kind = "call" /\ event.op = "cacheKey"
  /\ delimiter = Str(<<"-">>)
  /\ event.args = <<Arr(<<Str(alpha), Num(13), Str(more)>>)>>
  /\ event.data = Str(<<"a", "l", "p", "h", "a", "-", "1", "3", "-", "m", "o", "r", "e">>)

(***************************************************************************)
(* Claims about name lists, under SpecNames                                *)
(***************************************************************************)
\* the engine answered a fields or a keys call with a list of names
NamesReplied ==
  /\ event.kind = "reply"
  /\ event.cmd.cmd \in {"hkeys", "keys"}
  /\ event.err = Null
  /\ Len(event.calls) = 1

\* C19: fields(key) delivers exactly the field names of the record and
\* keys(pattern) exactly the key names the engine matched, each the string
\* under which it was written, also when its text is valid JSON ("13",
\* "true", "null"), and an empty list when there is none
C19_NamesVerbatim ==
  NamesReplied =>
    /\ DeliveredError = Null
    /\ Delivered
         = Arr([i \in 1..Len(event.data.a) |-> Str(WireText(event.data.a[i]))])
    /\ event.cmd.cmd = "hkeys" =>
         [i \in 1..Len(Delivered.a) |-> ToText(Delivered.a[i])]
           = ObjKeys(Record(db, ToText(event.cmd.key)))
    /\ event.cmd.cmd = "keys" =>
         /\ Len(Delivered.a) = Cardinality(Matched(event.cmd, db))
         /\ {ToText(Delivered.a[i]) : i \in 1..Len(Delivered.a)} = Matched(event.cmd, db)

(***************************************************************************)
(* Claims about exists, del and flush, under SpecRemove.  A call and the   *)
(* engine's answer to it are two successive steps, so event is the call    *)
(* and event' the answer.                                                  *)
(***************************************************************************)
\* the names a caller gave between positions from and the callback, as a
\* list or as one array
NamesGiven(args, from) ==
  IF Len(args) = from + 1 /\ IsArray(args[from])
  THEN args[from].a
  ELSE SubSeq(args, from, Len(args) - 1)
TextsOf(names) == {ToText(names[i]) : i \in 1..Len(names)}

ExistsAsked ==
  /\ event.kind = "call" /\ event.op = "exists"
  /\ Len(event.args) = 3
  /\ ~KeyFails(event.args[1])
  /\ event.args[2].t = "string"
  /\ IsFunction(event.args[3])
DelAsked ==
  /\ event.kind = "call" /\ event.op = "del"
  /\ Len(event.args) >= 3
  /\ ~KeyFails(event.args[1])
  /\ IsFunction(event.args[Len(event.args)])
  /\ NamesGiven(event.args, 2) # <<>>
FlushAsked ==
  /\ event.kind = "call" /\ event.op = "flush"
  /\ Len(event.args) >= 2
  /\ IsFunction(event.args[Len(event.args)])
  /\ NamesGiven(event.args, 1) # <<>>
  /\ \A i \in 1..Len(NamesGiven(event.args, 1)) : ~KeyFails(NamesGiven(event.args, 1)[i])

\* exists delivers true exactly when the record holds the field as the
\* engine executes hexists
ExistsTruthful ==
  (ExistsAsked /\ event'.kind = "reply" /\ event'.err = Null) =>
    /\ event'.cmd.cmd = "hexists"
    /\ event'.data \in {Num(0), Num(1), Buf(<<"0">>), Buf(<<"1">>)}
    /\ event'.calls
         = <<Invoke(event.args[3],
                    <<Null, Bool(HashHas(Record(db, ToText(cacheKey(event.args[1]))),
                                         ToText(event.args[2])))>>)>>
\* when a del has completed, the record holds none of the named fields
DelCompleted ==
  (DelAsked /\ event'.kind = "reply" /\ event'.err = Null) =>
    \A f \in TextsOf(NamesGiven(event.args, 2)) :
      ~HashHas(Record(db', ToText(cacheKey(event.args[1]))), f)
\* a field a record did not hold appears only as the engine executes a write
OnlyWriteAdds ==
  \A k \in DOMAIN db' :
    \A i \in 1..Len(db'[k]) :
      ~HashHas(Record(db, k), db'[k][i].k) =>
        (event'.kind = "reply" /\ event'.op = "set" /\ event'.cmd.cmd = "hmset")

\* C14: exists(key, field) delivers true exactly when the field is in the
\* record as the engine executes the command (reply 1, a number or the bytes
\* "1") and false otherwise; a completed del leaves the field absent and only
\* a write brings it back, so exists after del with no write between
\* delivers false
C14_ExistsAfterDel == [][ExistsTruthful /\ DelCompleted /\ OnlyWriteAdds]_vars

\* C14 witness: alpha of icao was deleted and exists answers false from the bytes "0"
C14_Witness ==
  /\ event.kind = "reply" /\ event.cmd.cmd = "hexists"
  /\ event.cmd.key = Str(icao) /\ event.cmd.arg = Str(alpha)
  /\ event.data = Buf(<<"0">>)
  /\ event.calls = <<Invoke(cbDone, <<Null, Bool(FALSE)>>)>>
  /\ Record(db, icao) = <<Prop(n13, n13)>>

\* C15: del(key, f1..fn), the fields given as a list or as one array, removes
\* from the record exactly the named fields it holds and leaves its other
\* fields and every other record unchanged; an absent field or a field named
\* twice gives no error and no further change
C15_DelRemovesNamed ==
  [][(DelAsked /\ event'.kind = "reply" /\ event'.err # ConnectionError) =>
       LET key == ToText(cacheKey(event.args[1]))
           named == TextsOf(NamesGiven(event.args, 2))
       IN /\ event'.cmd.cmd = "hdel"
          /\ event'.err = Null
          /\ event'.calls = <<Invoke(event.args[Len(event.args)], <<Null>>)>>
          /\ \A k \in DOMAIN db \cup DOMAIN db' :
               Record(db', k) = IF k = key
                                THEN SelectSeq(Record(db, k), LAMBDA e : e.k \notin named)
                                ELSE Record(db, k)]_vars

\* C15 witness: del('icao', ['alpha', 'xray'], cb) removed alpha, the absent
\* xray changed nothing
C15_Witness ==
  /\ event.kind = "reply" /\ event.cmd.cmd = "hdel" /\ event.err = Null
  /\ event.cmd.key = Str(icao)
  /\ event.cmd.arg = Arr(<<Str(alpha), Str(xray)>>)
  /\ event.data = Num(1)
  /\ Record(db, icao) = <<Prop(n13, n13)>>
  /\ Record(db, more) = <<Prop(alpha, n13)>>

\* C16: flush(k1..kn, cb), the keys given as a list or as one array, removes
\* every named key that exists and leaves every key not named unchanged; a
\* key that does not exist or a key named twice gives no error
C16_FlushRemovesNamed ==
  [][(FlushAsked /\ event'.kind = "reply" /\ event'.err # ConnectionError) =>
       LET names == NamesGiven(event.args, 1)
           named == {ToText(cacheKey(names[i])) : i \in 1..Len(names)}
       IN /\ event'.cmd.cmd = "del"
          /\ event'.err = Null
          /\ Len(event'.calls) = 1
          /\ event'.calls[1].fn = event.args[Len(event.args)]
          /\ event'.calls[1].args[1] = Null
          /\ DOMAIN db' = DOMAIN db \ named
          /\ \A k \in DOMAIN db' : db'[k] = db[k]]_vars

\* C16 witness: flush('icao', 'xray', cb) removed icao, xray held no record,
\* more is as it was
C16_Witness ==
  /\ event.kind = "reply" /\ event.cmd.cmd = "del" /\ event.err = Null
  /\ event.cmd.arg = Arr(<<Str(icao), Str(xray)>>)
  /\ event.data = Num(1)
  /\ DOMAIN db = {more}
  /\ db[more] = <<Prop(alpha, n13)>>

(***************************************************************************)
(* Claims about repeated writes, under SpecTwice                           *)
(***************************************************************************)
\* C20: set(key, fieldMap) performed a second time with the same key and
\* the same object, nothing else between, leaves every record's fields and
\* wire values as the first write left them
C20_WriteIdempotent ==
  [][(event.kind = "call" /\ event.op = "set" /\ event.args[3] = cbAgain
        /\ event'.kind = "reply" /\ event'.err = Null) =>
       /\ event'.cmd.cmd = "hmset"
       /\ event'.cmd.arg = event.args[2]
       /\ db' = db]_vars

\* C20 witness: { alpha: { a: 'x' } } written twice; the second write sent
\* the JSON text the first one had put into the object
C20_Witness ==
  /\ event.kind = "reply" /\ event.cmd.cmd = "hmset" /\ event.err = Null
  /\ event.cmd.cb = cbAgain
  /\ event.cmd.arg = Obj(<<Prop(alpha, Str(JSONText(Obj(<<Prop(<<"a">>, Str(<<"x">>))>>))))>>)
  /\ Record(db, icao) = <<Prop(alpha, JSONText(Obj(<<Prop(<<"a">>, Str(<<"x">>))>>)))>>

(***************************************************************************)
(* Claims about lifecycle signals, under Spec, and about the               *)
(* configuration, under SpecConfig                                         *)
(***************************************************************************)
\* C21: every ready, connect, end and error signal the client raises gives
\* exactly one emission of the same signal on the store, at once and so in
\* the same order, 'error' carrying the same error; no other step (no call
\* of an operation, no validation failure, no engine reply) emits anything
C21_SignalsForwarded ==
  /\ event.kind = "signal" =>
       /\ event.op \in {"ready", "connect", "end", "error"}
       /\ Len(event.emitted) = 1
       /\ event.emitted[1].name = event.op
       /\ event.op = "error" => event.emitted[1].args = event.args
  /\ event.kind # "signal" => event.emitted = <<>>

\* C21 witness: the client raised 'error' while a command was pending
C21_Witness ==
  /\ event.kind = "signal" /\ event.op = "error"
  /\ event.args = <<ConnectionError>>
  /\ event.emitted = <<[name |-> "error", args |-> <<ConnectionError>>]>>
  /\ pending # <<>>

\* the store as its constructor must have made it from the options
ConfigAsConstructed ==
  event.kind = "init" =>
    LET optDelimiter == event.args[1]
        optAutoCast == event.args[2]
        optClient == event.args[3]
    IN /\ delimiter = IF \/ (optDelimiter.t = "string" /\ optDelimiter.s # <<>>)
                         \/ optDelimiter.t \in {"number", "NaN"}
                      THEN optDelimiter ELSE Str(<<":">>)
       /\ autoCast = (optAutoCast # Bool(FALSE))
       /\ optClient = SuppliedClient => client = SuppliedClient

\* C22: the delimiter is the option when that is a non-empty string or a
\* number and ':' otherwise, autoCast is false exactly when the option is
\* false, the client is the supplied one; no operation, signal or
\* assignment changes delimiter, autoCast or client afterwards
C22_ConfigurationFixed ==
  /\ []ConfigAsConstructed
  /\ [][delimiter' = delimiter /\ autoCast' = autoCast /\ client' = client]_vars

\* C22 witness: an assignment to delimiter on a store made with delimiter 0
\* and autoCast false, after a write
C22_Witness ==
  /\ event.kind = "assign" /\ event.op = "delimiter" /\ event.args = <<Str(<<"-">>)>>
  /\ delimiter = Num(0)
  /\ autoCast = FALSE
  /\ client = SuppliedClient
  /\ db # <<>>

(***************************************************************************)
(* Claims about calls without a callback (Spec), the value read for a      *)
(* written field (SpecRound) and the keys cacheKey yields (SpecKey)        *)
(***************************************************************************)
\* the last step was a call of an operation none of whose arguments is
\* callable
NoCallbackCall ==
  /\ event.kind = "call"
  /\ event.op \in {"get", "set", "del", "exists", "fields", "keys", "flush"}
  /\ \A i \in 1..Len(event.args) : ~IsFunction(event.args[i])

\* C23: an operation called without a callable in the callback's position
\* (set(key, field, value), del(key, field), flush(k1, k2), ...) does
\* nothing: it issues no engine command, so changes no record, invokes no
\* callback and returns the store
C23_NoCallbackNoOp ==
  NoCallbackCall =>
    /\ event.issued = <<>>
    /\ pending = <<>>
    /\ event.calls = <<>>
    /\ event.ret = "this"

\* C24: with autoCast enabled a typed read of one field delivers null only
\* when the record does not hold the field: whatever was written to it
\* (null, false, 0, '', the text "null", ...), the value read is not null
C24_NullMeansAbsent ==
  (autoCast /\ GetReplied /\ TypedRead /\ SingleRead
     /\ HashHas(Record(db, ToText(event.cmd.key)), RequestedNames[1])) =>
    Delivered # Null

\* C25: cacheKey yields a non-empty string for every non-empty sequence,
\* also one of empty strings, and no value for an empty sequence, an empty
\* string, null, undefined, a boolean or an object
C25_KeyNeverEmpty ==
  (event.kind = "call" /\ event.op = "cacheKey") =>
    LET key == event.args[1]
    IN /\ (key.t = "array" /\ key.a # <<>>) =>
            (event.data.t = "string" /\ event.data.s # <<>>)
       /\ (key \in {Arr(<<>>), Str(<<>>), Null, Undef, Obj(<<>>)} \/ key.t = "boolean") =>
            event.data = Undef

AcceptedKeyCall ==
  /\ event.kind = "call"
  /\ Len(event.args) >= 2
  /\ IsFunction(event.args[Len(event.args)])
  /\ cacheKey(event.args[1]) # Undef
  /\ \/ event.op = "get"
     \/ event.op = "set" /\ Len(event.args) = 4
     \/ event.op = "del" /\ Len(event.args) = 3
     \/ event.op = "exists" /\ Len(event.args) = 3 /\ event.args[2].t = "string"
     \/ event.op = "fields" /\ Len(event.args) = 2

\* C28: every key for which cacheKey returns a value, every number and so 0
\* among them, is accepted by get, set, del, exists and fields: the call
\* issues its command for cacheKey(key) and reports no 'Invalid key'
C28_AcceptedKeysAccepted ==
  AcceptedKeyCall =>
    /\ Len(event.issued) = 1
    /\ event.issued[1].key = cacheKey(event.args[1])
    /\ \A i \in 1..Len(event.calls) : event.calls[i].args[1] # Err("Invalid key")

\* C29: a call whose last argument is callable leads to exactly one
\* invocation, of that callback: either at once with a validation error and
\* no command, or when the engine answers the one command issued; no other
\* callable argument is invoked
C29_OneInvocation ==
  /\ (event.kind = "call" /\ event.op # "cacheKey" /\ Len(event.args) >= 1
        /\ IsFunction(event.args[Len(event.args)])) =>
       LET cb == event.args[Len(event.args)]
       IN \/ /\ Len(event.calls) = 1
             /\ event.calls[1].fn = cb
             /\ event.calls[1].args[1].t = "error"
             /\ event.issued = <<>>
          \/ /\ event.calls = <<>>
             /\ Len(event.issued) = 1
             /\ event.issued[1].cb = cb
  /\ (event.kind = "reply" /\ IsFunction(event.cmd.cb) /\ event.cmd.cb # Noop) =>
       /\ Len(event.calls) = 1
       /\ event.calls[1].fn = event.cmd.cb

\* C30: set(key, fieldMap, cb) with autoCast enabled leaves the caller's
\* object as it was: each entry still holds the value the caller put there
C30_ArgumentsUnchanged ==
  (autoCast /\ event.kind = "call" /\ event.op = "set" /\ Len(event.args) = 3
     /\ event.args[2].t = "object" /\ ~KeyFails(event.args[1])) =>
    event.data = event.args[2]

\* the two writes have both been executed without an error
BothExecuted ==
  /\ pending = <<>>
  /\ Len(answered) = 2
  /\ \A i \in 1..2 : answered[i].err = Null
\* the command of the write that was called second
SecondWrite == answered[CHOOSE i \in 1..Len(answered) : answered[i].c.cb = cbAgain].c

\* C26: the adapter adds no ordering of its own: a write issues its one hmset
\* command, with the encoded value, inside the call and behind the commands
\* issued before it; and once the engine has executed two writes to the same
\* key and field called as w1 then w2, the field holds w2's encoded value,
\* whichever of the two completion callbacks has run or runs first
C26_LastWriteWins ==
  /\ [](BothExecuted =>
          HashGet(Record(db, icao), alpha) = ToText(SecondWrite.arg.p[1].v))
  /\ [][event'.kind = "call" =>
          /\ pending'
               = Append(pending,
                        Command("hmset", "set", Str(icao),
                                Obj(<<Prop(alpha, _stringify(event'.args[3]))>>),
                                event'.args[4], Bool(FALSE)))
          /\ db' = db]_vars

\* C26 witness: two writes of different values were both on their way, the
\* callback of the second ran first, the callback of the first has now run,
\* and the field holds the second value
C26_Witness ==
  /\ BothExecuted
  /\ answered[1].c.cb = cbDone /\ answered[2].c.cb = cbAgain
  /\ answered[1].c.arg # answered[2].c.arg
  /\ answered[1].done /\ answered[2].done
  /\ event.kind = "reply" /\ event.cmd.cb = cbDone
  /\ Len(event.calls) = 1 /\ event.calls[1].fn = cbDone
  /\ HashGet(Record(db, icao), alpha) = ToText(answered[2].c.arg.p[1].v)

====
